---- MODULE Spec2Model ----
(***************************************************************************)
(* Model of job_search.py: the posting normalisation and eligibility       *)
(* pipeline (extract_job_from_page, within_window, looks_like_us_location, *)
(* matches_role), the board fetchers, the deduplicating collector          *)
(* collect_all, the report builder send_email and the top-level main.      *)
(*                                                                         *)
(* Texts are sequences of one-character strings so that the substring and  *)
(* pattern tests of the code are computed rather than assumed.  Optional   *)
(* values are sequences of length at most one: <<>> is None, <<v>> is v.   *)
(* Time is counted in hours.                                               *)
(***************************************************************************)
EXTENDS Integers, Sequences, FiniteSets, TLC

VARIABLES
  pc,         \* position of main / collect_all
  out,        \* the list a board fetcher is building (out, lines 183/229/298)
  todo,       \* links or search results still to visit in the current loop
  qi,         \* number of search queries already issued
  results,    \* collect_all's results list
  seen,       \* collect_all's seen set
  stream,     \* history: every record handed to the dedup loop, in order
  lost,       \* history: search results abandoned without being visited
  now,        \* the wall clock, datetime.now()
  budget,     \* visits (items, job pages, search results) still allowed
  headerOk,   \* EMAIL / RECIPIENT are legal header values (no CR or LF)
  msgs,       \* messages built by send_email, with the SMTP outcome
  err,        \* the exception caught by main's handler, when there is one
  exitStatus, \* "running", "0", or "uncaught" (traceback, status 1)
  text,       \* input of a direct looks_like_us_location evaluation
  mode,       \* the usLocationStrictness option of the configuration
  verdict,    \* result of the direct looks_like_us_location evaluation
  page,       \* input of a direct extract_job_from_page or dedup-loop evaluation
  res,        \* its result
  gate        \* what the recency test at line 459 did in that evaluation

vars == << pc, out, todo, qi, results, seen, stream, lost, now, budget,
           headerOk, msgs, err, exitStatus, text, mode, verdict, page, res, gate >>

(***************************************************************************)
(* Bounds of the model                                                     *)
(***************************************************************************)
MaxTokens == 3

MaxTicks == 1

MaxCands == 3

MaxVisits == 3

MaxItems == 2

NumQueries == 2

(***************************************************************************)
(* Configuration (lines 55-93)                                             *)
(***************************************************************************)
DAYS == 1

TIME_WINDOW == DAYS * 24

UpperChars == <<"A","B","C","D","E","F","G","H","I","J","K","L","M","N","O","P","Q","R","S","T","U","V","W","X","Y","Z">>

LowerChars == <<"a","b","c","d","e","f","g","h","i","j","k","l","m","n","o","p","q","r","s","t","u","v","w","x","y","z">>

DigitChars == <<"0","1","2","3","4","5","6","7","8","9","_">>

US_STATE_ABBRS ==
  { <<"A","L">>, <<"A","K">>, <<"A","Z">>, <<"A","R">>, <<"C","A">>,
    <<"C","O">>, <<"C","T">>, <<"D","E">>, <<"F","L">>, <<"G","A">>,
    <<"H","I">>, <<"I","D">>, <<"I","L">>, <<"I","N">>, <<"I","A">>,
    <<"K","S">>, <<"K","Y">>, <<"L","A">>, <<"M","E">>, <<"M","D">>,
    <<"M","A">>, <<"M","I">>, <<"M","N">>, <<"M","S">>, <<"M","O">>,
    <<"M","T">>, <<"N","E">>, <<"N","V">>, <<"N","H">>, <<"N","J">>,
    <<"N","M">>, <<"N","Y">>, <<"N","C">>, <<"N","D">>, <<"O","H">>,
    <<"O","K">>, <<"O","R">>, <<"P","A">>, <<"R","I">>, <<"S","C">>,
    <<"S","D">>, <<"T","N">>, <<"T","X">>, <<"U","T">>, <<"V","T">>,
    <<"V","A">>, <<"W","A">>, <<"W","V">>, <<"W","I">>, <<"W","Y">> }

US_INDICATORS ==
  { <<"u","n","i","t","e","d"," ","s","t","a","t","e","s">>,
    <<"u","s","a">>,
    <<"u","s">>,
    <<"u",".","s",".">>,
    <<"u",".","s",".","a",".">> }

StateNames ==
  { <<"c","a","l","i","f","o","r","n","i","a">>,
    <<"n","e","w"," ","y","o","r","k">>,
    <<"t","e","x","a","s">>,
    <<"w","a","s","h","i","n","g","t","o","n">>,
    <<"f","l","o","r","i","d","a">>,
    <<"i","l","l","i","n","o","i","s">>,
    <<"m","a","s","s","a","c","h","u","s","e","t","t","s">> }

KEYWORDS ==
  { <<"s","o","f","t","w","a","r","e"," ","e","n","g","i","n","e","e","r">>,
    <<"s","o","f","t","w","a","r","e"," ","d","e","v","e","l","o","p","e","r">>,
    <<"f","u","l","l"," ","s","t","a","c","k">>,
    <<"f","u","l","l","-","s","t","a","c","k">>,
    <<"b","a","c","k","e","n","d"," ","e","n","g","i","n","e","e","r">>,
    <<"f","r","o","n","t","e","n","d"," ","e","n","g","i","n","e","e","r">>,
    <<"b","a","c","k","e","n","d"," ","d","e","v","e","l","o","p","e","r">>,
    <<"f","r","o","n","t","e","n","d"," ","d","e","v","e","l","o","p","e","r">>,
    <<"s","w","e">>,
    <<"s","o","f","t","w","a","r","e"," ","e","n","g">> }

S_remote == <<"r","e","m","o","t","e">>

S_hybrid == <<"h","y","b","r","i","d">>

S_onsite == <<"o","n","s","i","t","e">>

S_office == <<"o","f","f","i","c","e">>

L_Remote == <<"R","e","m","o","t","e">>

L_Unknown == <<"U","n","k","n","o","w","n">>

L_SanFranciscoCA == <<"S","a","n"," ","F","r","a","n","c","i","s","c","o",","," ","C","A">>

L_BerlinGermany == <<"B","e","r","l","i","n",","," ","G","e","r","m","a","n","y">>

L_Hybrid == <<"H","y","b","r","i","d">>

T_SoftwareEngineer == <<"S","o","f","t","w","a","r","e"," ","E","n","g","i","n","e","e","r">>

T_Designer == <<"D","e","s","i","g","n","e","r">>

C_Acme == <<"A","c","m","e">>

C_SWE == <<"S","W","E"," ","L","a","b","s">>

S_www == <<"w","w","w",".">>

S_location == <<"l","o","c","a","t","i","o","n">>

N_lever == <<"j","o","b","s",".","l","e","v","e","r",".","c","o">>

N_greenhouse == <<"w","w","w",".","G","r","e","e","n","h","o","u","s","e",".","i","o">>

N_duckduckgo == <<"d","u","c","k","d","u","c","k","g","o",".","c","o","m">>

N_remoteok == <<"r","e","m","o","t","e","o","k",".","c","o","m">>

N_wwr == <<"w","e","w","o","r","k","r","e","m","o","t","e","l","y",".","c","o","m">>

N_remoteco == <<"r","e","m","o","t","e",".","c","o">>

T_SWEPadded == <<" "," ","S","W","E"," ">>

T_Blank == <<" ">>

L_LocationAustinTX == <<"L","o","c","a","t","i","o","n",":"," ","A","u","s","t","i","n",","," ","T","X">>

L_LocationParisFR == <<"L","o","c","a","t","i","o","n",":"," ","P","a","r","i","s",","," ","F","R">>

Tokens ==
  { <<"R","e","m","o","t","e">>,
    <<"H","y","b","r","i","d">>,
    <<"O","n","s","i","t","e">>,
    <<"O","f","f","i","c","e">>,
    <<"B","e","r","l","i","n">>,
    <<","," ">>,
    <<"C","A">>,
    <<"F","R">>,
    <<"G","e","r","m","a","n","y">>,
    <<"T","e","x","a","s">>,
    <<"U","S","A">>,
    <<"S","a","n"," ","F","r","a","n","c","i","s","c","o">>,
    <<" ">> }

(***************************************************************************)
(* Text primitives: str.lower, the "in" operator, str.strip                *)
(***************************************************************************)
LowerOf ==
  [c \in { UpperChars[i] : i \in 1..Len(UpperChars) } |->
     LowerChars[CHOOSE i \in 1..Len(UpperChars) : UpperChars[i] = c]]

UpperOf ==
  [c \in { LowerChars[i] : i \in 1..Len(LowerChars) } |->
     UpperChars[CHOOSE i \in 1..Len(LowerChars) : LowerChars[i] = c]]

Letters == DOMAIN LowerOf \cup DOMAIN UpperOf

WordChars == Letters \cup { DigitChars[i] : i \in 1..Len(DigitChars) }

IsLetter(c) == c \in Letters

IsWordChar(c) == c \in WordChars

IsSpace(c) == c \in {" ", "\t", "\n"}

LowerChar(c) == IF c \in DOMAIN LowerOf THEN LowerOf[c] ELSE c

UpperChar(c) == IF c \in DOMAIN UpperOf THEN UpperOf[c] ELSE c

Lower(s) == [i \in 1..Len(s) |-> LowerChar(s[i])]

Upper(s) == [i \in 1..Len(s) |-> UpperChar(s[i])]

Contains(s, sub) ==
  \E i \in 1..(Len(s) - Len(sub) + 1) : SubSeq(s, i, i + Len(sub) - 1) = sub

Strip(s) ==
  IF \A i \in 1..Len(s) : IsSpace(s[i])
    THEN <<>>
    ELSE LET a == CHOOSE i \in 1..Len(s) :
                    ~IsSpace(s[i]) /\ \A j \in 1..(i - 1) : IsSpace(s[j])
             b == CHOOSE i \in 1..Len(s) :
                    ~IsSpace(s[i]) /\ \A j \in (i + 1)..Len(s) : IsSpace(s[j])
         IN  SubSeq(s, a, b)

(***************************************************************************)
(* re.search(r",\s*([A-Za-z]{2})\b", text) at line 145: CommaAbbrAt(s, i)  *)
(* is the group captured by a match starting at the comma at position i,   *)
(* or <<>> when the pattern does not match there; CommaAbbr is the group   *)
(* of the leftmost match, which is the only one re.search reports.         *)
(***************************************************************************)
CommaAbbrAt(s, i) ==
  IF s[i] # ","
    THEN <<>>
    ELSE LET k == CHOOSE j \in (i + 1)..(Len(s) + 1) :
                    /\ \A m \in (i + 1)..(j - 1) : IsSpace(s[m])
                    /\ (j = Len(s) + 1 \/ ~IsSpace(s[j]))
         IN  IF /\ k + 1 <= Len(s)
                /\ IsLetter(s[k])
                /\ IsLetter(s[k + 1])
                /\ (k + 2 > Len(s) \/ ~IsWordChar(s[k + 2]))
               THEN << SubSeq(s, k, k + 1) >>
               ELSE <<>>

CommaAbbr(s) ==
  LET hit == [i \in 1..Len(s) |-> CommaAbbrAt(s, i)]
  IN  IF \E i \in 1..Len(s) : hit[i] # <<>>
        THEN hit[CHOOSE i \in 1..Len(s) :
                   hit[i] # <<>> /\ \A j \in 1..(i - 1) : hit[j] = <<>>]
        ELSE <<>>

(***************************************************************************)
(* Eligibility predicates                                                  *)
(***************************************************************************)
looks_like_us_location_no_remote(t) ==
  LET lt == Lower(t)
      abbr == CommaAbbr(t)
  IN  IF t = <<>> THEN FALSE
      ELSE IF \E ind \in US_INDICATORS : Contains(lt, ind) THEN TRUE
      ELSE IF Contains(lt, S_hybrid) THEN TRUE
      ELSE IF abbr # <<>> /\ Upper(abbr[1]) \in US_STATE_ABBRS THEN TRUE
      ELSE \E s \in StateNames : Contains(lt, s)

looks_like_us_location_hybrid_needs_signal(t) ==
  LET lt == Lower(t)
      abbr == CommaAbbr(t)
  IN  IF t = <<>> THEN FALSE
      ELSE IF \E ind \in US_INDICATORS : Contains(lt, ind) THEN TRUE
      ELSE IF Contains(lt, S_remote) THEN TRUE
      ELSE IF abbr # <<>> /\ Upper(abbr[1]) \in US_STATE_ABBRS THEN TRUE
      ELSE \E s \in StateNames : Contains(lt, s)

looks_like_us_location(t) ==
  LET lt == Lower(t)
      abbr == CommaAbbr(t)
  IN  IF t = <<>> THEN FALSE
      ELSE IF \E ind \in US_INDICATORS : Contains(lt, ind) THEN TRUE
      ELSE IF Contains(lt, S_remote) THEN TRUE
      ELSE IF Contains(lt, S_hybrid) THEN TRUE
      ELSE IF abbr # <<>> /\ Upper(abbr[1]) \in US_STATE_ABBRS THEN TRUE
      ELSE \E s \in StateNames : Contains(lt, s)

matches_role(t) ==
  LET lt == Lower(t)
  IN  IF t = <<>> THEN FALSE
      ELSE \E k \in KEYWORDS : Contains(lt, k)

(***************************************************************************)
(* URLs and domain_of (lines 115-119).  A URL is its scheme, its network   *)
(* location and an opaque path; a relative reference has scheme "".        *)
(***************************************************************************)
Url(scheme, netloc, path) ==
  [scheme |-> scheme, netloc |-> netloc, path |-> path]

RECURSIVE RemoveAll(_, _)
RemoveAll(s, sub) ==
  IF Len(s) < Len(sub) \/ sub = <<>>
    THEN s
    ELSE IF SubSeq(s, 1, Len(sub)) = sub
           THEN RemoveAll(SubSeq(s, Len(sub) + 1, Len(s)), sub)
           ELSE << s[1] >> \o RemoveAll(Tail(s), sub)

domain_of(url) == RemoveAll(Lower(url.netloc), S_www)

StartsWithHttp(url) == url.scheme \in { "http", "https" }

(***************************************************************************)
(* Datetimes: an instant in hours, and whether the value carries a UTC     *)
(* offset.  dateparser.parse returns an offset-aware datetime when the     *)
(* text names an offset ("2026-11-03T09:00:00+00:00") and a naive one      *)
(* otherwise; datetime.now() is naive, and subtracting an aware datetime   *)
(* from it raises TypeError.                                               *)
(***************************************************************************)
Naive(h) == [at |-> h, aware |-> FALSE]

Aware(h) == [at |-> h, aware |-> TRUE]

isoformat(dt) == [at |-> dt.at, offset |-> IF dt.aware THEN "+00:00" ELSE ""]

within_window(dt, t) ==
  IF dt = <<>> THEN "False"
  ELSE IF dt[1].aware THEN "TypeError"
  ELSE IF t - dt[1].at <= TIME_WINDOW THEN "True"
  ELSE "False"

\* tp is the first pattern of lines 164-177 that the page text matches.
try_extract_posted_from_text(tp, t) ==
  CASE tp.kind = "hours"  -> << Naive(t - tp.n) >>
    [] tp.kind = "days"   -> << Naive(t - 24 * tp.n) >>
    [] tp.kind = "posted" -> tp.dt
    [] tp.kind = "just"   -> << Naive(t) >>
    [] OTHER              -> <<>>

(***************************************************************************)
(* Parsed pages.  A page is the response status and the features of the    *)
(* document that the extractors look at.                                   *)
(*   h1, og_title, site_name, ctag, meta_loc: optional texts               *)
(*   title_tag: whether <title> exists, and its .string (None when the     *)
(*              element has no text or more than one child)                *)
(*   labels: the parent texts of the text nodes that contain "Location"    *)
(*   body_loc: the context cut around the first "City, ST" shaped match    *)
(*   raw_remote: whether the word "remote" occurs in the raw response      *)
(*   time_tag, meta_p: parse_date of the attribute, when there is one      *)
(*   text_posted: see try_extract_posted_from_text                         *)
(*   strings: the stripped strings of the document (WeWorkRemotely)        *)
(***************************************************************************)
NoText == [kind |-> "none", n |-> 0, dt |-> <<>>]

HoursAgo(n) == [kind |-> "hours", n |-> n, dt |-> <<>>]

DaysAgo(n) == [kind |-> "days", n |-> n, dt |-> <<>>]

BlankPage ==
  [ status |-> "ok", h1 |-> <<>>, og_title |-> <<>>,
    title_tag |-> [present |-> FALSE, string |-> <<>>],
    site_name |-> <<>>, ctag |-> <<>>,
    meta_loc |-> <<>>, labels |-> <<>>, body_loc |-> <<>>,
    raw_remote |-> FALSE,
    time_tag |-> <<>>, meta_p |-> <<>>, text_posted |-> NoText,
    strings |-> <<>> ]

DropSeparators(s) ==
  IF \A i \in 1..Len(s) : s[i] = ":" \/ IsSpace(s[i])
    THEN <<>>
    ELSE SubSeq(s, CHOOSE i \in 1..Len(s) :
                     /\ ~(s[i] = ":" \/ IsSpace(s[i]))
                     /\ \A j \in 1..(i - 1) : s[j] = ":" \/ IsSpace(s[j]),
                Len(s))

\* re.sub(r"(?i)location[:\s]*", "", txt) at line 430
RECURSIVE StripLabel(_)
StripLabel(s) ==
  IF s = <<>>
    THEN <<>>
    ELSE IF Len(s) >= Len(S_location)
            /\ Lower(SubSeq(s, 1, Len(S_location))) = S_location
           THEN StripLabel(DropSeparators(SubSeq(s, Len(S_location) + 1, Len(s))))
           ELSE << s[1] >> \o StripLabel(Tail(s))

\* lines 396-404; raised is the AttributeError of None.strip() at line 404
PageTitle(html) ==
  LET t1 == IF html.h1 # <<>> THEN Strip(html.h1[1]) ELSE <<>>
      t2 == IF t1 = <<>> /\ html.og_title # <<>> /\ html.og_title[1] # <<>>
              THEN Strip(html.og_title[1]) ELSE t1
  IN  IF t2 = <<>> /\ html.title_tag.present
        THEN IF html.title_tag.string = <<>>
               THEN [raised |-> TRUE, title |-> <<>>]
               ELSE [raised |-> FALSE, title |-> Strip(html.title_tag.string[1])]
        ELSE [raised |-> FALSE, title |-> t2]

\* lines 408-417
PageCompany(url, html) ==
  LET c1 == IF html.site_name # <<>> /\ html.site_name[1] # <<>>
              THEN Strip(html.site_name[1]) ELSE <<>>
      c2 == IF c1 = <<>> /\ html.ctag # <<>> THEN Strip(html.ctag[1]) ELSE c1
  IN  IF c2 = <<>> THEN domain_of(url) ELSE c2

\* lines 419-445
PageLocation(html) ==
  LET l1 == IF html.meta_loc # <<>> /\ html.meta_loc[1] # <<>>
              THEN Strip(html.meta_loc[1]) ELSE <<>>
      cleaned == [i \in 1..Len(html.labels) |-> Strip(StripLabel(html.labels[i]))]
      l2 == IF l1 = <<>> /\ \E i \in 1..Len(cleaned) : cleaned[i] # <<>>
              THEN cleaned[CHOOSE i \in 1..Len(cleaned) :
                             /\ cleaned[i] # <<>>
                             /\ \A j \in 1..(i - 1) : cleaned[j] = <<>>]
              ELSE l1
      l3 == IF l2 = <<>> /\ html.body_loc # <<>> THEN Strip(html.body_loc[1]) ELSE l2
      l4 == IF l3 = <<>> /\ html.raw_remote THEN L_Remote ELSE l3
  IN  IF l4 = <<>> THEN L_Unknown ELSE l4

\* lines 447-457
PagePosted(html, t) ==
  IF html.time_tag # <<>> THEN html.time_tag
  ELSE IF html.meta_p # <<>> THEN html.meta_p
  ELSE try_extract_posted_from_text(html.text_posted, t)

Job(title, company, location, link, posted) ==
  [ JobTitle |-> title, Company |-> company, Location |-> location,
    ApplyLink |-> link,
    PostedDate |-> IF posted = <<>> THEN <<>> ELSE << isoformat(posted[1]) >> ]

ReturnNone == [outcome |-> "None", job |-> <<>>]

Raise == [outcome |-> "raise", job |-> <<>>]

Return(j) == [outcome |-> "job", job |-> << j >>]

\* lines 390-473, evaluated when the clock reads t
extract_job_from_page(url, html, t) ==
  IF html.status # "ok" THEN ReturnNone
  ELSE
    LET tt == PageTitle(html)
        company == PageCompany(url, html)
        location == PageLocation(html)
        posted == PagePosted(html, t)
    IN  IF tt.raised THEN Raise
        ELSE IF tt.title = <<>> THEN ReturnNone
        ELSE IF posted # <<>> /\ within_window(posted, t) = "TypeError" THEN Raise
        ELSE IF posted # <<>> /\ within_window(posted, t) = "False" THEN ReturnNone
        ELSE IF ~matches_role(tt.title \o << " " >> \o company) THEN ReturnNone
        ELSE IF ~looks_like_us_location(location) THEN ReturnNone
        ELSE Return(Job(Strip(tt.title), Strip(company), Strip(location),
                        url, posted))

\* what the test at line 459 did, for a page that got that far
RecencyTest(html, t) ==
  IF html.status # "ok" \/ PageTitle(html).raised \/ PageTitle(html).title = <<>>
    THEN "unreached"
    ELSE IF PagePosted(html, t) = <<>>
           THEN "skipped"
           ELSE within_window(PagePosted(html, t), t)

(***************************************************************************)
(* Board fetchers: what one iteration of each fetcher's loop contributes   *)
(* to its out list (<<>> when the item or page is skipped).                *)
(***************************************************************************)
RECURSIVE JoinTags(_)
JoinTags(tags) ==
  IF tags = <<>> THEN <<>>
  ELSE IF Len(tags) = 1 THEN tags[1]
  ELSE tags[1] \o << " " >> \o JoinTags(Tail(tags))

\* lines 190-220: one element of the RemoteOK JSON array
remoteok_item(item, t) ==
  LET link == IF item.link # <<>> /\ item.link[1].scheme = ""
                THEN << Url("https", N_remoteok, item.link[1].path) >>
                ELSE item.link
      combined == item.title \o << " " >> \o item.company \o << " " >>
                    \o JoinTags(item.tags)
  IN  IF ~item.isdict THEN <<>>
      ELSE IF item.title = <<>> \/ item.company = <<>> \/ link = <<>> THEN <<>>
      ELSE IF item.date # <<>> /\ within_window(item.date, t) # "True" THEN <<>>
      ELSE IF ~matches_role(combined) THEN <<>>
      ELSE << Job(Strip(item.title), Strip(item.company),
                  IF item.location = <<>> THEN L_Remote ELSE item.location[1],
                  link[1], item.date) >>

\* lines 260-266 and 326-331
BoardPosted(html, t) ==
  IF html.time_tag # <<>> THEN html.time_tag
  ELSE try_extract_posted_from_text(html.text_posted, t)

\* lines 272-279
WwrLocation(html) ==
  LET hit(i) == /\ Contains(Lower(html.strings[i]), S_location)
                /\ Contains(html.strings[i], << "," >>)
                /\ looks_like_us_location(html.strings[i])
  IN  IF \E i \in 1..Len(html.strings) : hit(i)
        THEN html.strings[CHOOSE i \in 1..Len(html.strings) :
                            hit(i) /\ \A j \in 1..(i - 1) : ~hit(j)]
        ELSE L_Remote

\* lines 252-289: one WeWorkRemotely job page
wwr_page(job_url, html, t) ==
  LET title == IF html.h1 # <<>> THEN Strip(html.h1[1]) ELSE <<>>
      company == IF html.ctag # <<>> THEN Strip(html.ctag[1])
                 ELSE domain_of(job_url)
      dt == BoardPosted(html, t)
  IN  IF html.status # "ok" THEN <<>>
      ELSE IF dt # <<>> /\ within_window(dt, t) # "True" THEN <<>>
      ELSE IF ~matches_role(title) THEN <<>>
      ELSE << Job(title, company, WwrLocation(html), job_url, dt) >>

\* lines 315-346: one Remote.co job page; a title of None fails matches_role
remoteco_page(job_url, html, t) ==
  LET title == IF html.h1 # <<>> THEN Strip(html.h1[1])
               ELSE IF html.title_tag.present /\ html.title_tag.string # <<>>
                      THEN html.title_tag.string[1]
                      ELSE <<>>
      ctext == IF html.ctag # <<>> THEN Strip(html.ctag[1]) ELSE <<>>
      dt == BoardPosted(html, t)
  IN  IF html.status # "ok" THEN <<>>
      ELSE IF dt # <<>> /\ within_window(dt, t) # "True" THEN <<>>
      ELSE IF ~matches_role(title) THEN <<>>
      ELSE << Job(title, IF ctext = <<>> THEN domain_of(job_url) ELSE ctext,
                  L_Remote, job_url, dt) >>

(***************************************************************************)
(* The dedup loop of collect_all (lines 485-490 and 511-515)               *)
(***************************************************************************)
Key(j) == << j.JobTitle, j.Company, j.ApplyLink >>

Accept_unchecked(acc, j) ==
  [results |-> Append(acc.results, j), seen |-> acc.seen \cup { Key(j) }]

Accept_prepend(acc, j) ==
  IF Key(j) \in acc.seen
    THEN acc
    ELSE [results |-> << j >> \o acc.results, seen |-> acc.seen \cup { Key(j) }]

Accept_no_link(acc, j) ==
  IF \E k \in acc.seen : k[1] = j.JobTitle /\ k[2] = j.Company
    THEN acc
    ELSE [results |-> Append(acc.results, j), seen |-> acc.seen \cup { Key(j) }]

Accept(acc, j) ==
  IF Key(j) \in acc.seen
    THEN acc
    ELSE [results |-> Append(acc.results, j), seen |-> acc.seen \cup { Key(j) }]

RECURSIVE AcceptAll(_, _)
AcceptAll(acc, items) ==
  IF items = <<>>
    THEN acc
    ELSE AcceptAll(Accept(acc, Head(items)), Tail(items))

(***************************************************************************)
(* send_email (lines 524-557): the message it builds, or the exception     *)
(* that building it raises.  Header assignment raises ValueError when the  *)
(* address holds a line break; set_content raises UnicodeEncodeError when  *)
(* the body holds a lone surrogate (json.loads yields one for "\ud800").   *)
(***************************************************************************)
LoneSurrogate == "<D800>"

CsvHeader == << "Job Title", "Company", "Location", "Apply Link", "Posted Date" >>

CsvRow(j) == << j.JobTitle, j.Company, j.Location, j.ApplyLink, j.PostedDate >>

BodyLine(j) == << j.JobTitle, j.Company, j.Location, j.ApplyLink >>

Encodable(j) ==
  \A f \in { j.JobTitle, j.Company, j.Location } :
    \A i \in 1..Len(f) : f[i] # LoneSurrogate

Csv(jobs) == << CsvHeader >> \o [i \in 1..Len(jobs) |-> CsvRow(jobs[i])]

build_message_always_csv(jobs, success, error_message) ==
  IF jobs = <<>>
    THEN [ error_flag |-> ~success,
           body |-> [kind |-> "empty", error |-> error_message, lines |-> <<>>],
           attachment |-> << Csv(jobs) >> ]
    ELSE [ error_flag |-> ~success,
           body |-> [kind |-> "list", error |-> <<>>,
                     lines |-> [i \in 1..Len(jobs) |-> BodyLine(jobs[i])]],
           attachment |-> << Csv(jobs) >> ]

\* lines 525-549, when nothing raises
build_message(jobs, success, error_message) ==
  IF jobs = <<>>
    THEN [ error_flag |-> ~success,
           body |-> [kind |-> "empty", error |-> error_message, lines |-> <<>>],
           attachment |-> <<>> ]
    ELSE [ error_flag |-> ~success,
           body |-> [kind |-> "list", error |-> <<>>,
                     lines |-> [i \in 1..Len(jobs) |-> BodyLine(jobs[i])]],
           attachment |-> << Csv(jobs) >> ]

\* the exception raised by lines 529-549, <<>> when there is none
build_error(jobs, hdrOk) ==
  IF ~hdrOk THEN << "ValueError" >>
  ELSE IF \E i \in 1..Len(jobs) : ~Encodable(jobs[i]) THEN << "UnicodeEncodeError" >>
  ELSE <<>>

\* datetime.now() moves on while the run is in progress
Tick ==
  /\ pc # "done" /\ now < MaxTicks
  /\ now' = now + 1
  /\ UNCHANGED << pc, out, todo, qi, results, seen, stream, lost, budget,
                  headerOk, msgs, err, exitStatus, text, mode, verdict, page,
                  res, gate >>

(***************************************************************************)
(* Direct evaluation of looks_like_us_location on every text made of at    *)
(* most MaxTokens tokens.  The code reads no strictness option, so mode is *)
(* a configuration value that the evaluation never consults.               *)
(***************************************************************************)
RECURSIVE TextsOf(_)
TextsOf(n) ==
  IF n = 0
    THEN { <<>> }
    ELSE TextsOf(n - 1) \cup { t \o k : t \in TextsOf(n - 1), k \in Tokens }

Modes == { "strict", "permissive" }

Idle ==
  /\ pc = "idle" /\ out = <<>> /\ todo = <<>> /\ qi = 0
  /\ results = <<>> /\ seen = {} /\ stream = <<>> /\ lost = 0
  /\ now = 0 /\ budget = 0 /\ headerOk = TRUE /\ msgs = <<>> /\ err = <<>>
  /\ exitStatus = "running"

InitLoc ==
  /\ Idle
  /\ text \in TextsOf(MaxTokens)
  /\ mode \in Modes
  /\ verdict = <<>>
  /\ page = <<>> /\ res = <<>> /\ gate = "unset"

CheckLocation ==
  /\ verdict = <<>>
  /\ verdict' = << looks_like_us_location(text) >>
  /\ UNCHANGED << pc, out, todo, qi, results, seen, stream, lost, now, budget,
                  headerOk, msgs, err, exitStatus, text, mode, page, res, gate >>

NextLoc == CheckLocation

SpecLoc == InitLoc /\ [][NextLoc]_vars

(***************************************************************************)
(* Direct evaluation of extract_job_from_page on a family of pages that    *)
(* varies every feature the title, recency, role and location rules read.  *)
(***************************************************************************)
U_lever == Url("https", N_lever, "a")

U_greenhouse == Url("https", N_greenhouse, "b")

Optional(S) == { <<>> } \cup { << x >> : x \in S }

TitleTags ==
  { [present |-> FALSE, string |-> <<>>],
    [present |-> TRUE, string |-> <<>>],
    [present |-> TRUE, string |-> << T_Blank >>],
    [present |-> TRUE, string |-> << T_SoftwareEngineer >>] }

PostedTimes == { Naive(0 - TIME_WINDOW), Naive(0 - 2 * TIME_WINDOW), Aware(0 - 1) }

ExtractPages ==
  { [BlankPage EXCEPT !.status = "error"], [BlankPage EXCEPT !.status = "non200"] }
  \cup
  { [BlankPage EXCEPT !.h1 = h, !.og_title = og, !.title_tag = tg,
                      !.site_name = sn, !.ctag = ct, !.meta_loc = ml,
                      !.raw_remote = rr, !.time_tag = tm, !.text_posted = tp] :
      h \in Optional({ <<>>, T_SWEPadded }),
      og \in Optional({ T_Designer }),
      tg \in TitleTags,
      sn \in Optional({ C_Acme }),
      ct \in Optional({ C_SWE }),
      ml \in Optional({ L_BerlinGermany, L_SanFranciscoCA }),
      rr \in BOOLEAN,
      tm \in Optional(PostedTimes),
      tp \in { NoText, HoursAgo(3), DaysAgo(2) } }

InitExtract ==
  /\ Idle
  /\ text = <<>> /\ mode = "permissive" /\ verdict = <<>>
  /\ page \in { << [url |-> U_lever, html |-> h] >> : h \in ExtractPages }
  /\ res = <<>>
  /\ gate = "unset"

ExtractPage ==
  /\ res = <<>>
  /\ res' = << extract_job_from_page(page[1].url, page[1].html, now) >>
  /\ gate' = RecencyTest(page[1].html, now)
  /\ UNCHANGED << pc, out, todo, qi, results, seen, stream, lost, now, budget,
                  headerOk, msgs, err, exitStatus, text, mode, verdict, page >>

NextExtract == ExtractPage \/ (res = <<>> /\ Tick)

SpecExtract == InitExtract /\ [][NextExtract]_vars

(***************************************************************************)
(* The run: main calls collect_all and send_email (lines 560-573).         *)
(* Inputs of the run, drawn from small families that cover every branch:   *)
(* the RemoteOK JSON items, the job pages of the two HTML boards, the      *)
(* links a search returns and the pages behind them.                       *)
(***************************************************************************)
Min(a, b) == IF a < b THEN a ELSE b

SeqsUpTo(S, n) == UNION { [1..k -> S] : k \in 0..n }

GoodItem ==
  [ isdict |-> TRUE, title |-> T_SoftwareEngineer, company |-> C_Acme,
    link |-> << U_lever >>, date |-> <<>>, tags |-> <<>>, location |-> <<>> ]

ROItems ==
  { GoodItem,
    [GoodItem EXCEPT !.location = << L_BerlinGermany >>,
                     !.link = << Url("", <<>>, "c") >>],
    [GoodItem EXCEPT !.title = T_Designer, !.tags = << S_remote, T_SWEPadded >>],
    [GoodItem EXCEPT !.date = << Aware(0 - 1) >>],
    [GoodItem EXCEPT !.date = << Naive(0 - TIME_WINDOW) >>],
    [GoodItem EXCEPT !.title = T_SoftwareEngineer \o << LoneSurrogate >>],
    [GoodItem EXCEPT !.title = <<>>],
    [GoodItem EXCEPT !.isdict = FALSE] }

EngineerPage ==
  [BlankPage EXCEPT !.h1 = << T_SoftwareEngineer >>, !.site_name = << C_Acme >>,
                    !.ctag = << C_Acme >>, !.raw_remote = TRUE]

BoardPages ==
  { [BlankPage EXCEPT !.status = "non200"],
    EngineerPage,
    [EngineerPage EXCEPT !.strings = << L_LocationParisFR, L_LocationAustinTX >>,
                         !.text_posted = HoursAgo(3)],
    [EngineerPage EXCEPT !.time_tag = << Aware(0 - 1) >>],
    [EngineerPage EXCEPT !.h1 = <<>>,
                         !.title_tag = [present |-> TRUE, string |-> <<>>]],
    [EngineerPage EXCEPT !.h1 = << T_Designer >>] }

SearchPages ==
  { [BlankPage EXCEPT !.status = "error"],
    [BlankPage EXCEPT !.status = "non200"],
    BlankPage,
    [BlankPage EXCEPT !.title_tag = [present |-> TRUE, string |-> <<>>]],
    EngineerPage,
    [EngineerPage EXCEPT !.labels = << L_LocationAustinTX >>,
                         !.time_tag = << Naive(0 - TIME_WINDOW) >>],
    [EngineerPage EXCEPT !.meta_loc = << L_BerlinGermany >>],
    [EngineerPage EXCEPT !.h1 = << T_Designer >>],
    [EngineerPage EXCEPT !.meta_p = << Aware(0 - 1) >>] }

\* job links of the two HTML boards, in sorted order
WwrUrls == << Url("https", N_wwr, "a"), U_lever >>

RemoteCoUrls == << Url("https", N_remoteco, "a") >>

Hrefs ==
  { U_lever, U_greenhouse, Url("", <<>>, "l"), Url("https", N_duckduckgo, "y") }

\* sorted(set(links)) for the links of a listing page
RECURSIVE Pick(_, _)
Pick(urls, I) ==
  IF urls = <<>>
    THEN <<>>
    ELSE (IF Len(urls) \in I THEN Pick(SubSeq(urls, 1, Len(urls) - 1), I) \o << urls[Len(urls)] >>
          ELSE Pick(SubSeq(urls, 1, Len(urls) - 1), I))

SortedLinks(urls, n) ==
  { Pick(urls, I) : I \in { J \in SUBSET (1..Len(urls)) : Cardinality(J) <= n } }

(***************************************************************************)
(* The per-item functions tabulated over the inputs of the run and the     *)
(* readings of the clock, so that each is computed once per input.         *)
(***************************************************************************)
Clock == 0..MaxTicks

RangeOf(s) == { s[i] : i \in 1..Len(s) }

remoteok_item_of ==
  [item \in ROItems, t \in Clock |-> remoteok_item(item, t)]

wwr_page_of ==
  [job_url \in RangeOf(WwrUrls), html \in BoardPages, t \in Clock |->
     wwr_page(job_url, html, t)]

remoteco_page_of ==
  [job_url \in RangeOf(RemoteCoUrls), html \in BoardPages, t \in Clock |->
     remoteco_page(job_url, html, t)]

extract_job_from_page_of ==
  [href \in Hrefs, html \in SearchPages, t \in Clock |->
     extract_job_from_page(href, html, t)]

Init ==
  /\ pc = "remoteok"
  /\ out = <<>> /\ todo = <<>> /\ qi = 0
  /\ results = <<>> /\ seen = {} /\ stream = <<>> /\ lost = 0
  /\ now = 0
  /\ budget = MaxVisits
  /\ headerOk \in BOOLEAN
  /\ msgs = <<>> /\ err = <<>>
  /\ exitStatus = "running"
  /\ text = <<>> /\ mode = "permissive" /\ verdict = <<>>
  /\ page = <<>> /\ res = <<>> /\ gate = "unset"

Direct == << text, mode, verdict, page, res, gate >>

\* lines 185-190: the API response; a failed request leaves no items
RemoteOKRequest ==
  /\ pc = "remoteok"
  /\ \E data \in SeqsUpTo(ROItems, Min(budget, MaxItems)) : todo' = data
  /\ pc' = "remoteok_loop"
  /\ UNCHANGED << out, qi, results, seen, stream, lost, now, budget, headerOk,
                  msgs, err, exitStatus, Direct >>

RemoteOKItem ==
  /\ pc = "remoteok_loop" /\ todo # <<>>
  /\ out' = out \o remoteok_item_of[Head(todo), now]
  /\ todo' = Tail(todo)
  /\ budget' = budget - 1
  /\ UNCHANGED << pc, qi, results, seen, stream, lost, now, headerOk, msgs, err,
                  exitStatus, Direct >>

\* lines 233-250
WwrRequest ==
  /\ pc = "wwr"
  /\ \E links \in SortedLinks(WwrUrls, Min(budget, MaxItems)) : todo' = links
  /\ pc' = "wwr_loop"
  /\ UNCHANGED << out, qi, results, seen, stream, lost, now, budget, headerOk,
                  msgs, err, exitStatus, Direct >>

WwrPage ==
  /\ pc = "wwr_loop" /\ todo # <<>>
  /\ \E html \in BoardPages : out' = out \o wwr_page_of[Head(todo), html, now]
  /\ todo' = Tail(todo)
  /\ budget' = budget - 1
  /\ UNCHANGED << pc, qi, results, seen, stream, lost, now, headerOk, msgs, err,
                  exitStatus, Direct >>

\* lines 302-314
RemoteCoRequest ==
  /\ pc = "remoteco"
  /\ \E links \in SortedLinks(RemoteCoUrls, Min(budget, MaxItems)) : todo' = links
  /\ pc' = "remoteco_loop"
  /\ UNCHANGED << out, qi, results, seen, stream, lost, now, budget, headerOk,
                  msgs, err, exitStatus, Direct >>

RemoteCoPage ==
  /\ pc = "remoteco_loop" /\ todo # <<>>
  /\ \E html \in BoardPages : out' = out \o remoteco_page_of[Head(todo), html, now]
  /\ todo' = Tail(todo)
  /\ budget' = budget - 1
  /\ UNCHANGED << pc, qi, results, seen, stream, lost, now, headerOk, msgs, err,
                  exitStatus, Direct >>

\* lines 484-490: the fetcher has returned out; collect_all deduplicates it
FetcherReturn(loop, next) ==
  /\ pc = loop /\ todo = <<>>
  /\ LET acc == AcceptAll([results |-> results, seen |-> seen], out)
     IN  results' = acc.results /\ seen' = acc.seen
  /\ stream' = stream \o out
  /\ out' = <<>>
  /\ pc' = next
  /\ UNCHANGED << todo, qi, lost, now, budget, headerOk, msgs, err, exitStatus,
                  Direct >>

\* lines 496-500: ddg_search returns [] on a request error
DdgSearch ==
  /\ pc = "search" /\ todo = <<>> /\ qi < NumQueries
  /\ \E items \in SeqsUpTo(Hrefs, Min(budget, MaxItems)) : todo' = items
  /\ qi' = qi + 1
  /\ UNCHANGED << pc, out, results, seen, stream, lost, now, budget, headerOk,
                  msgs, err, exitStatus, Direct >>

\* lines 500-518: one search result.  An exception raised by
\* extract_job_from_page leaves the for loop and is caught at line 517,
\* after which the next query starts.
SearchResult ==
  /\ pc = "search" /\ todo # <<>>
  /\ budget' = budget - 1
  /\ LET href == Head(todo)
     IN  IF ~StartsWithHttp(href) \/ domain_of(href) = N_duckduckgo
           THEN /\ todo' = Tail(todo)
                /\ UNCHANGED << results, seen, stream, lost >>
           ELSE \E html \in SearchPages :
                  LET r == extract_job_from_page_of[href, html, now]
                  IN  CASE r.outcome = "raise" ->
                             /\ todo' = <<>>
                             /\ lost' = lost + Len(Tail(todo))
                             /\ UNCHANGED << results, seen, stream >>
                        [] r.outcome = "None" ->
                             /\ todo' = Tail(todo)
                             /\ UNCHANGED << results, seen, stream, lost >>
                        [] r.outcome = "job" ->
                             /\ LET acc == Accept([results |-> results,
                                                   seen |-> seen], r.job[1])
                                IN  results' = acc.results /\ seen' = acc.seen
                             /\ stream' = Append(stream, r.job[1])
                             /\ todo' = Tail(todo)
                             /\ UNCHANGED lost
  /\ UNCHANGED << pc, out, qi, now, headerOk, msgs, err, exitStatus, Direct >>

\* lines 520-521
CollectReturn ==
  /\ pc = "search" /\ todo = <<>> /\ qi = NumQueries
  /\ pc' = "send"
  /\ UNCHANGED << out, todo, qi, results, seen, stream, lost, now, budget,
                  headerOk, msgs, err, exitStatus, Direct >>

SendReport_smtp_raises ==
  /\ pc = "send"
  /\ LET e == build_error(results, headerOk)
     IN  IF e # <<>>
           THEN /\ pc' = "handler" /\ err' = e
                /\ UNCHANGED << msgs, exitStatus >>
           ELSE \E smtp \in BOOLEAN :
                  /\ msgs' = Append(msgs, [msg |-> build_message(results, TRUE, <<>>),
                                           sent |-> smtp])
                  /\ IF smtp
                       THEN pc' = "done" /\ exitStatus' = "0" /\ UNCHANGED err
                       ELSE pc' = "handler" /\ err' = << "SMTPException" >>
                            /\ UNCHANGED exitStatus
  /\ UNCHANGED << out, todo, qi, results, seen, stream, lost, now, budget,
                  headerOk, Direct >>

\* line 564: send_email(jobs, success=True).  An exception raised while the
\* message is built reaches the handler at line 565; an SMTP failure is
\* caught inside send_email (lines 551-557).
SendReport ==
  /\ pc = "send"
  /\ LET e == build_error(results, headerOk)
     IN  IF e # <<>>
           THEN /\ pc' = "handler" /\ err' = e
                /\ UNCHANGED << msgs, exitStatus >>
           ELSE /\ \E smtp \in BOOLEAN :
                     msgs' = Append(msgs, [msg |-> build_message(results, TRUE, <<>>),
                                           sent |-> smtp])
                /\ pc' = "done" /\ exitStatus' = "0"
                /\ UNCHANGED err
  /\ UNCHANGED << out, todo, qi, results, seen, stream, lost, now, budget,
                  headerOk, Direct >>

\* line 568: send_email([], success=False, error_message=str(e)); an
\* exception raised here is raised inside the handler and leaves main.
SendErrorReport ==
  /\ pc = "handler"
  /\ LET e == build_error(<<>>, headerOk)
     IN  IF e # <<>>
           THEN /\ exitStatus' = "uncaught"
                /\ UNCHANGED msgs
           ELSE /\ \E smtp \in BOOLEAN :
                     msgs' = Append(msgs, [msg |-> build_message(<<>>, FALSE, err),
                                           sent |-> smtp])
                /\ exitStatus' = "0"
  /\ pc' = "done"
  /\ UNCHANGED << out, todo, qi, results, seen, stream, lost, now, budget,
                  headerOk, err, Direct >>

Next ==
  \/ RemoteOKRequest \/ RemoteOKItem
  \/ FetcherReturn("remoteok_loop", "wwr")
  \/ WwrRequest \/ WwrPage
  \/ FetcherReturn("wwr_loop", "remoteco")
  \/ RemoteCoRequest \/ RemoteCoPage
  \/ FetcherReturn("remoteco_loop", "search")
  \/ DdgSearch \/ SearchResult \/ CollectReturn
  \/ SendReport \/ SendErrorReport
  \/ Tick

Spec == Init /\ [][Next]_vars

(***************************************************************************)
(* Properties of the run (specification Spec)                              *)
(***************************************************************************)
KeysOf(s) == { Key(s[i]) : i \in 1..Len(s) }

\* C1: collect_all's result list never holds two records with the same
\* (Job Title, Company, Apply Link) key: a record is appended the first time
\* its key occurs and skipped on every repeat, so the number of accepted
\* records equals (and never exceeds) the number of distinct keys handed to
\* the dedup loop, whichever sources produced them.
C1_NoDuplicateKeys ==
  /\ \A i, j \in 1..Len(results) : i # j => Key(results[i]) # Key(results[j])
  /\ Len(results) <= Cardinality(KeysOf(stream))
  /\ KeysOf(results) = KeysOf(stream)
  /\ seen = KeysOf(stream)

\* a key has been handed to the dedup loop twice, and something was accepted
C1_Witness ==
  /\ \E i, j \in 1..Len(stream) : i < j /\ stream[i] = stream[j]
  /\ Len(results) >= 1
  /\ Len(results) < Len(stream)

RecencyPassable(j, t) ==
  \/ j.PostedDate = <<>>
  \/ /\ j.PostedDate[1].offset = ""
     /\ \E u \in 0..t : u - j.PostedDate[1].at <= TIME_WINDOW

\* C2: every record in the result list has passed all three eligibility
\* predicates - role match on title and company, U.S.-location eligibility
\* of its location, and recency - whichever source produced it.
C2_AllResultsEligible ==
  \A i \in 1..Len(results) :
    /\ matches_role(results[i].JobTitle \o << " " >> \o results[i].Company)
    /\ looks_like_us_location(results[i].Location)
    /\ RecencyPassable(results[i], now)

\* C3: every run of main ends with exit status 0 after having attempted to
\* deliver a report, whichever step failed; no exception leaves main.
C3_ExitsZeroAfterAttempt ==
  pc = "done" => exitStatus = "0" /\ Len(msgs) >= 1

RecordsOf(m) == IF m.msg.error_flag THEN <<>> ELSE results

\* C8 as stated: every report carries the tabular file, with the exact header
\* row and one row per accepted record, also when there are no records (then
\* the file is the header alone and the body is the empty-result message).
C8_FileAlwaysAttached ==
  \A k \in 1..Len(msgs) :
    LET m == msgs[k]
        jobs == RecordsOf(m)
    IN  /\ m.msg.attachment # <<>>
        /\ m.msg.attachment[1][1] = CsvHeader
        /\ Len(m.msg.attachment[1]) = 1 + Len(jobs)
        /\ jobs = <<>> => m.msg.body.kind = "empty"

\* C8 (amended): a report built from a non-empty record sequence carries the
\* tabular file - the exact header row "Job Title, Company, Location, Apply
\* Link, Posted Date" followed by exactly one row per accepted record, in
\* order; a report built from an empty sequence carries no file at all, and
\* its body is the empty-result message.
C8_FileOnlyWhenNonEmpty ==
  \A k \in 1..Len(msgs) :
    LET m == msgs[k]
        jobs == RecordsOf(m)
        att == m.msg.attachment
    IN  /\ jobs # <<>> =>
              /\ att # <<>>
              /\ att[1][1] =
                   << "Job Title", "Company", "Location", "Apply Link", "Posted Date" >>
              /\ Len(att[1]) = 1 + Len(jobs)
              /\ \A i \in 1..Len(jobs) :
                   att[1][i + 1] = << jobs[i].JobTitle, jobs[i].Company,
                                      jobs[i].Location, jobs[i].ApplyLink,
                                      jobs[i].PostedDate >>
              /\ m.msg.body.kind = "list"
        /\ jobs = <<>> => att = <<>> /\ m.msg.body.kind = "empty"

\* the normal report of a run that found nothing
C8_Witness ==
  /\ pc = "done" /\ results = <<>> /\ Len(msgs) = 1
  /\ ~msgs[1].msg.error_flag
  /\ msgs[1].msg.attachment = <<>>
  /\ msgs[1].msg.body.kind = "empty"

\* C9: a failure while processing one page drops only that page: no other
\* search result of the same query, or of a later one, goes unvisited.
C9_OnlyFailedPageDropped == lost = 0

RECURSIVE FirstSeen(_)
FirstSeen(s) ==
  IF s = <<>>
    THEN <<>>
    ELSE LET front == SubSeq(s, 1, Len(s) - 1)
             last == s[Len(s)]
         IN  IF \E i \in 1..Len(front) : Key(front[i]) = Key(last)
               THEN FirstSeen(front)
               ELSE Append(FirstSeen(front), last)

IsPrefix(a, b) == Len(a) <= Len(b) /\ SubSeq(b, 1, Len(a)) = a

\* C10: the result list is in discovery order and first-seen wins: it is the
\* subsequence of the stream of eligible candidates that keeps, for each key,
\* its earliest occurrence; and a step only ever appends to it - no record
\* is removed, replaced or reordered by later candidates.
C10_DiscoveryOrderFirstSeen ==
  /\ [](results = FirstSeen(stream))
  /\ [][IsPrefix(results, results')]_vars

\* two different records with one key were discovered, and another key too
C10_Witness ==
  /\ \E i, j \in 1..Len(stream) :
       i < j /\ Key(stream[i]) = Key(stream[j]) /\ stream[i] # stream[j]
  /\ Len(results) >= 2

(***************************************************************************)
(* Properties of extract_job_from_page (specification SpecExtract)         *)
(***************************************************************************)
Blank(opt) == opt = <<>> \/ Strip(opt[1]) = <<>>

TitleLess(html) ==
  /\ Blank(html.h1)
  /\ Blank(html.og_title)
  /\ (~html.title_tag.present \/ Blank(html.title_tag.string))

\* C4: a record whose posted timestamp is absent passes the recency test
\* whatever the window; a record whose posted timestamp is known passes it
\* if and only if (now - postedAt) <= window, with now read when the test is
\* evaluated; so no returned record has a known timestamp older than that.
C4_RecencyFilter ==
  gate \in { "skipped", "True", "False", "TypeError" } =>
    LET posted == PagePosted(page[1].html, now)
    IN  /\ posted = <<>> => gate = "skipped"
        /\ posted # <<>> =>
             ((gate = "True") <=> (now - posted[1].at <= TIME_WINDOW))
        /\ (res[1].outcome = "job" /\ posted # <<>>) =>
             now - posted[1].at <= TIME_WINDOW

\* C7: for every fetched page from which no title can be extracted (no
\* non-empty first heading, no og:title/title meta content, no non-empty
\* document title, including a title element with no text),
\* extract_job_from_page returns None: it produces no record and raises
\* nothing.
C7_TitlelessPageYieldsNone ==
  (res # <<>> /\ page[1].html.status = "ok" /\ TitleLess(page[1].html))
    => res[1].outcome = "None"

(***************************************************************************)
(* Properties of looks_like_us_location (specification SpecLoc)            *)
(***************************************************************************)
\* C5 as stated: "Remote" alone is eligible in permissive mode and
\* ineligible in strict mode; "San Francisco, CA" is eligible and
\* "Berlin, Germany" ineligible in both modes.
C5_ByMode ==
  verdict # <<>> =>
    /\ text = L_Remote => (verdict[1] <=> mode = "permissive")
    /\ text = L_SanFranciscoCA => verdict[1]
    /\ text = L_BerlinGermany => ~verdict[1]

\* C5 (amended): there is one location rule, not two modes: "Remote" alone
\* is eligible whatever strictness is configured, "San Francisco, CA" is
\* eligible and "Berlin, Germany" is ineligible.
C5_SingleMode ==
  verdict # <<>> =>
    /\ text = L_Remote => verdict[1]
    /\ text = L_SanFranciscoCA => verdict[1]
    /\ text = L_BerlinGermany => ~verdict[1]

C5_Witness == text = L_Remote /\ mode = "strict" /\ verdict = << TRUE >>

HasIndicator(t) == \E ind \in US_INDICATORS : Contains(Lower(t), ind)

HasStateAfterComma(t) ==
  \E i \in 1..Len(t) :
    /\ t[i] = ","
    /\ \E k \in (i + 1)..(Len(t) - 1) :
         /\ \A m \in (i + 1)..(k - 1) : IsSpace(t[m])
         /\ Upper(<< t[k], t[k + 1] >>) \in US_STATE_ABBRS
         /\ (k + 2 > Len(t) \/ ~IsWordChar(t[k + 2]))

HasStateName(t) == \E s \in StateNames : Contains(Lower(t), s)

HasQualifier(t) ==
  \E q \in { S_hybrid, S_onsite, S_office } : Contains(Lower(t), q)

\* C6 as stated: a text containing "hybrid", "onsite" or "office" is
\* accepted only when it also carries a U.S. signal (a state abbreviation
\* after a comma or a state name; the code knows no city names), a country
\* indicator or - bare remote being accepted - "remote".
C6_QualifierNeedsSignal ==
  (verdict # <<>> /\ HasQualifier(text) /\ verdict[1]) =>
    \/ HasStateAfterComma(text) \/ HasStateName(text)
    \/ HasIndicator(text) \/ Contains(Lower(text), S_remote)

\* C6 (amended): a text containing "hybrid" is accepted as a U.S. location
\* unconditionally; a text containing "onsite" or "office" but not "hybrid"
\* is accepted only when it also carries a U.S. signal (a valid state
\* abbreviation after a comma or a recognized full state name), a country
\* indicator or "remote"; a text made of "onsite" or "office" alone is
\* ineligible.
C6_HybridAloneSuffices ==
  verdict # <<>> =>
    /\ Contains(Lower(text), S_hybrid) => verdict[1]
    /\ (HasQualifier(text) /\ ~Contains(Lower(text), S_hybrid) /\ verdict[1]) =>
         \/ HasStateAfterComma(text) \/ HasStateName(text)
         \/ HasIndicator(text) \/ Contains(Lower(text), S_remote)
    /\ Lower(text) \in { S_onsite, S_office } => ~verdict[1]

C6_Witness == text = L_Hybrid /\ verdict = << TRUE >>

(***************************************************************************)
(* Direct evaluation of the dedup loop of collect_all on two orderings of  *)
(* one multiset of eligible candidates: page holds the two orderings, res  *)
(* the result list that the loop builds from each, starting from an empty  *)
(* results list and an empty seen set.                                     *)
(***************************************************************************)
Candidate(company, url, location) ==
  Job(T_SoftwareEngineer, company, location, url, <<>>)

Candidates ==
  { Candidate(C_Acme, U_lever, L_Remote),
    Candidate(C_Acme, U_lever, L_SanFranciscoCA),
    Candidate(C_SWE, U_lever, L_Remote),
    Candidate(C_Acme, U_greenhouse, L_Remote) }

Bijections(n) ==
  { f \in [1..n -> 1..n] : \A i, j \in 1..n : i # j => f[i] # f[j] }

Reorderings(s) ==
  { [i \in 1..Len(s) |-> s[f[i]]] : f \in Bijections(Len(s)) }

InitDedup ==
  /\ Idle
  /\ text = <<>> /\ mode = "permissive" /\ verdict = <<>>
  /\ \E s \in SeqsUpTo(Candidates, MaxCands) :
       \E p \in Reorderings(s) : page = << s, p >>
  /\ res = <<>>
  /\ gate = "unset"

\* lines 477-478 and 485-490, run once on each ordering
DedupBoth ==
  /\ res = <<>>
  /\ res' = << AcceptAll([results |-> <<>>, seen |-> {}], page[1]).results,
               AcceptAll([results |-> <<>>, seen |-> {}], page[2]).results >>
  /\ UNCHANGED << pc, out, todo, qi, results, seen, stream, lost, now, budget,
                  headerOk, msgs, err, exitStatus, text, mode, verdict, page,
                  gate >>

NextDedup == DedupBoth

SpecDedup == InitDedup /\ [][NextDedup]_vars

(***************************************************************************)
(* Properties of the dedup loop (specification SpecDedup)                  *)
(***************************************************************************)
\* C11: for any two permutations of the same finite multiset of eligible
\* candidates fed through the dedup loop, the set of (Job Title, Company,
\* Apply Link) keys of the final result list is the same and equals the set
\* of distinct keys of the input; only the order of the list and the
\* duplicate instance that is kept may differ.
C11_OrderIndependentKeys ==
  res # <<>> =>
    /\ KeysOf(res[1]) = KeysOf(res[2])
    /\ KeysOf(res[1]) = KeysOf(page[1])
    /\ Len(res[1]) = Len(res[2])

\* two orderings whose results differ both in order and in the instance kept
C11_Witness ==
  /\ res # <<>>
  /\ page[1] # page[2]
  /\ Len(res[1]) >= 2
  /\ Len(res[1]) < Len(page[1])
  /\ \E i \in 1..Len(res[1]) : \A j \in 1..Len(res[2]) : res[1][i] # res[2][j]
  /\ Key(res[1][1]) # Key(res[2][1])

(***************************************************************************)
(* Delivery attempts of a run (specification Spec)                         *)
(***************************************************************************)
\* C12: in every run of main at most one report is successfully delivered;
\* the error-flagged report ("[ERROR]" subject, zero records) is attempted
\* only when the normal path raised before any report was handed to the mail
\* transport; a mail-transport failure inside send_email is swallowed - the
\* run ends with status 0 and no second delivery is attempted.
C12_AtMostOneDelivery ==
  /\ Len(msgs) <= 1
  /\ Cardinality({ k \in 1..Len(msgs) : msgs[k].sent }) <= 1
  /\ \A k \in 1..Len(msgs) :
       /\ msgs[k].msg.error_flag =>
            /\ err # <<>>
            /\ k = 1
            /\ msgs[k].msg.body.kind = "empty"
            /\ msgs[k].msg.body.lines = <<>>
            /\ msgs[k].msg.attachment = <<>>
       /\ ~msgs[k].msg.error_flag => err = <<>>
       /\ ~msgs[k].sent => pc = "done" /\ exitStatus = "0"

\* the error report was attempted once and the mail transport failed
C12_Witness ==
  /\ pc = "done" /\ exitStatus = "0"
  /\ err # <<>>
  /\ Len(msgs) = 1
  /\ msgs[1].msg.error_flag
  /\ ~msgs[1].sent

====
